---- MODULE Spec2Model ----
(***************************************************************************)
(* State-machine model of skycatalogs/objects/snana_object.py: one         *)
(* SnanaObject, the SnanaCollection it belongs to and the SED file that    *)
(* the collection names.                                                   *)
(*                                                                         *)
(* Python values are modelled as follows.  None is the empty tuple, a      *)
(* value x that may also be None is the 1-tuple <<x>>.  A float that is    *)
(* the quotient of two integers is the pair <<num, den>> (den > 0), so     *)
(* that interpolated numbers are compared exactly.  Array indices are the  *)
(* 0-based indices of the code; a[i] of the code is a[i + 1] here.         *)
(***************************************************************************)
EXTENDS Integers, Sequences, FiniteSets

VARIABLES
    belongs_mjd,   \* self._belongs_to._mjd, the collection's shared time
    file,          \* datasets of f[self._id] in self._belongs_to._SED_file
    native,        \* native attributes start_mjd, end_mjd of the object
    self,          \* the SnanaObject's fields
    reads,         \* how often datasets mjd and lambda were read from file
    lastCall,      \* the most recent step: the call, its arguments, its
                   \* outcome and the object before it (pre)
    cachedFor,     \* history: belongs_mjd when the bracket was stored
    firstRet       \* history: first shared-time result since belongs_mjd changed

vars == <<belongs_mjd, file, native, self, reads, lastCall, cachedFor, firstRet>>

----------------------------------------------------------------------------
(* Bounds of the model *)

\* longest epoch grid in the SED file
MaxLen == 3

\* most reads of one dataset that are counted
MaxReads == 2

----------------------------------------------------------------------------
(* Python values *)

None == << >>

Some(x) == <<x>>

Return(v) == [kind |-> "return", val |-> v]

Raise(e) == [kind |-> "raise", val |-> e]

\* Python truth value of "not mjd" for mjd None or a float
Falsy(mjd) == mjd = None \/ mjd = Some(0)

----------------------------------------------------------------------------
(* The inputs *)

\* sample times an epoch grid is made of
GridTimes == {10 * i : i \in 1 .. MaxLen}

\* query times: 0, before, between and after the samples
Times == {0, 15, 35}

MjdArgs == {None} \cup {Some(t) : t \in Times}

Bands == {"r", "g"}

\* baseline fluxes handed down by BaseObject.get_LSST_flux
Fluxes == {-1, 0, 100}

IsAscending(T) == \A i \in 1 .. Len(T) - 1 : T[i] < T[i + 1]

Grids ==
    {T \in UNION {[1 .. n -> GridTimes] : n \in 1 .. MaxLen} : IsAscending(T)}

\* one wavelength channel; row k of flambda is <<k>>, magcor_r[k] is 2 * (k - 1)
SEDFile(T) ==
    [mjd      |-> T,
     lambda   |-> <<1000>>,
     flambda  |-> [k \in 1 .. Len(T) |-> <<k>>],
     magcor_r |-> [k \in 1 .. Len(T) |-> 2 * (k - 1)]]

Windows == {[start_mjd |-> 0, end_mjd |-> 40], [start_mjd |-> 10, end_mjd |-> 30]}

----------------------------------------------------------------------------
(* SnanaObject.__init__ *)

\* the object's fields after construction; _mjd_fraction is first assigned
\* together with _mjd_ix_l and is never read before that
InitSelf ==
    [mjds         |-> None,
     lambda       |-> None,
     mjd_ix_l     |-> None,
     mjd_ix_u     |-> None,
     mjd_fraction |-> None]

----------------------------------------------------------------------------
(* SnanaObject._find_mjd_interval *)

\* bisect.bisect (bisect_right) on the array a: lo and hi are 0-based
RECURSIVE BisectLoop(_, _, _, _)
BisectLoop(a, x, lo, hi) ==
    IF lo < hi
    THEN LET mid == (lo + hi) \div 2
         IN  IF x < a[mid + 1]
             THEN BisectLoop(a, x, lo, mid)
             ELSE BisectLoop(a, x, mid + 1, hi)
    ELSE lo

Bisect(a, x) == BisectLoop(a, x, 0, Len(a))

\* "if not mjd: mjd = self._belongs_to._mjd"
QueryMjd(mjd, bmjd) == IF Falsy(mjd) THEN bmjd ELSE mjd

\* the bracket is stored whatever the time of the query
StoreFlagAlways(mjd, bmjd) == TRUE

\* "store = True" or "store = (mjd == self._belongs_to._mjd)"
StoreFlag(mjd, bmjd) == IF Falsy(mjd) THEN TRUE ELSE mjd = bmjd

\* "if self._mjd_ix_l is not None"
CacheHit(s) == s.mjd_ix_l # None

\* "if self._mjds is None": read the epoch grid from the file
LoadMjds(s, f) == IF s.mjds = None THEN [s EXCEPT !.mjds = Some(f.mjd)] ELSE s

\* the triple (mjd_ix_l, mjd_ix_u, mjd_fraction) for the float mjd
Bracket(mjds, mjd) ==
    LET index == Bisect(mjds, mjd)
    IN  IF index = 0
        THEN <<0, 0, None>>
        ELSE IF index = Len(mjds)
             THEN <<index - 1, index - 1, None>>
             ELSE <<index - 1, index,
                    <<mjd - mjds[index], mjds[index + 1] - mjds[index]>> >>

\* the assignment of self._mjd_fraction left out
StoreBracketNoFraction(s, br) ==
    [s EXCEPT !.mjd_ix_l = Some(br[1]), !.mjd_ix_u = Some(br[2])]

\* "if store: self._mjd_ix_l = ..."
StoreBracket(s, br) ==
    [s EXCEPT !.mjd_ix_l = Some(br[1]),
              !.mjd_ix_u = Some(br[2]),
              !.mjd_fraction = br[3]]

\* the call self._find_mjd_interval(mjd): the object afterwards, what the
\* call returns or raises, the datasets it read and whether it stored
find_mjd_interval(s, bmjd, f, mjd_arg) ==
    LET mjd   == QueryMjd(mjd_arg, bmjd)
        store == StoreFlag(mjd_arg, bmjd)
    IN  IF store /\ CacheHit(s)
        THEN [self   |-> s,
              ret    |-> Return(<<s.mjd_ix_l[1], s.mjd_ix_u[1], s.mjd_fraction>>),
              read   |-> << >>,
              stored |-> FALSE]
        ELSE LET s1   == LoadMjds(s, f)
                 read == IF s.mjds = None THEN <<"mjd">> ELSE << >>
             IN  IF mjd = None
                 \* bisect compares None with a float
                 THEN [self |-> s1, ret |-> Raise("TypeError"),
                       read |-> read, stored |-> FALSE]
                 ELSE LET br == Bracket(s1.mjds[1], mjd[1])
                      IN  [self   |-> IF store THEN StoreBracket(s1, br) ELSE s1,
                           ret    |-> Return(br),
                           read   |-> read,
                           stored |-> store]

----------------------------------------------------------------------------
(* SnanaObject._linear_interp_SED and SnanaObject._get_sed *)

\* the float v, and below + fraction * (above - below) for fraction n/d
Num(v) == <<v, 1>>

Interp(below, above, fraction) ==
    <<below * fraction[2] + fraction[1] * (above - below), fraction[2]>>

\* "if self._mjds is None or self._lambda is None"
NeedGrids(s) == s.mjds = None \/ s.lambda = None

LoadGrids(s, f) ==
    IF NeedGrids(s)
    THEN [s EXCEPT !.mjds = Some(f.mjd), !.lambda = Some(f.lambda)]
    ELSE s

\* the dataset read by the branch mjd_ix_l == mjd_ix_u
ClampedDataset == "flamba"

\* galsim.SED(galsim.LookupTable(f[id]['lambda'], flambda, 'linear'), 'A', 'flambda')
MakeSED(wave, flambda) ==
    [wave        |-> wave,
     flambda     |-> flambda,
     interpolant |-> "linear",
     wave_type   |-> "A",
     flux_type   |-> "flambda"]

linear_interp_SED(s, bmjd, f, mjd_arg) ==
    LET loc == find_mjd_interval(s, bmjd, f, mjd_arg)
        called == Some([mjd |-> mjd_arg, ret |-> loc.ret, read |-> loc.read])
    IN  IF loc.ret.kind = "raise"
        THEN [self |-> loc.self, ret |-> loc.ret, read |-> loc.read,
              stored |-> loc.stored, locate |-> called]
        ELSE LET s1    == LoadGrids(loc.self, f)
                 read1 == loc.read \o
                          (IF NeedGrids(loc.self) THEN <<"mjd", "lambda">> ELSE << >>)
                 ix_l  == loc.ret.val[1]
                 ix_u  == loc.ret.val[2]
                 frac  == loc.ret.val[3]
             IN  IF ix_l = ix_u
                 THEN IF ClampedDataset \in DOMAIN f
                      THEN LET row == f[ClampedDataset][ix_l + 1]
                           IN  [self |-> s1,
                                ret  |-> Return(MakeSED(f.lambda,
                                         [c \in DOMAIN row |-> Num(row[c])])),
                                read |-> read1 \o <<ClampedDataset, "lambda">>,
                                stored |-> loc.stored, locate |-> called]
                      ELSE [self |-> s1, ret |-> Raise("KeyError"), read |-> read1,
                            stored |-> loc.stored, locate |-> called]
                 ELSE LET below == f.flambda[ix_u]
                          above == f.flambda[ix_u + 1]
                      IN  [self |-> s1,
                           ret  |-> Return(MakeSED(f.lambda,
                                    [c \in DOMAIN below |->
                                        Interp(below[c], above[c], frac)])),
                           read |-> read1 \o <<"flambda", "flambda", "lambda">>,
                           stored |-> loc.stored, locate |-> called]

get_sed(s, bmjd, f, nat, mjd_arg) ==
    LET mjd == IF mjd_arg = None THEN bmjd ELSE mjd_arg
    IN  IF mjd = None
        THEN [self |-> s, ret |-> Raise("ValueError"), read |-> << >>,
              stored |-> FALSE, locate |-> None]
        ELSE IF mjd[1] < nat.start_mjd \/ mjd[1] > nat.end_mjd
             THEN [self |-> s, ret |-> Return(<<None, 0>>), read |-> << >>,
                   stored |-> FALSE, locate |-> None]
             ELSE LET r == linear_interp_SED(s, bmjd, f, mjd)
                  IN  IF r.ret.kind = "raise"
                      THEN r
                      ELSE [r EXCEPT !.ret = Return(<<r.ret.val, 0>>)]

----------------------------------------------------------------------------
(* SnanaObject.get_LSST_flux *)

\* decimal digits after "0." of the literal in _flux_ratio
FluxRatioK == <<9, 2, 1, 0, 3, 4, 0, 3, 7, 1, 9, 6, 1, 8, 4>>

\* np.exp(-k * mag), kept as the pair of k and mag
flux_ratio(mag) == [k |-> FluxRatioK, mag |-> mag]

\* the test for a zero flux left out
ZeroFluxDropped(flux) == FALSE

\* "if flux == 0.0"
ZeroFlux(flux) == flux = 0

MagcorName(band) == IF band = "r" THEN "magcor_r" ELSE "magcor_g"

\* flux is what super().get_LSST_flux returned; path lists the stages of
\* the query that were passed
get_LSST_flux(s, bmjd, f, band, flux, mjd_arg) ==
    IF flux < 0
    THEN [self |-> s, ret |-> Raise("SkyCatalogsRuntimeError"), read |-> << >>,
          stored |-> FALSE, locate |-> None, path |-> <<"BASELINE_COMPUTED">>]
    ELSE IF ZeroFlux(flux)
    THEN [self |-> s, ret |-> Return(flux), read |-> << >>,
          stored |-> FALSE, locate |-> None,
          path |-> <<"BASELINE_COMPUTED", "ZERO_SHORTCIRCUIT">>]
    ELSE
    LET loc    == find_mjd_interval(s, bmjd, f, mjd_arg)
        called == Some([mjd |-> mjd_arg, ret |-> loc.ret, read |-> loc.read])
    IN  IF loc.ret.kind = "raise"
        THEN [self |-> loc.self, ret |-> loc.ret, read |-> loc.read,
              stored |-> loc.stored, locate |-> called,
              path |-> <<"BASELINE_COMPUTED">>]
        ELSE IF MagcorName(band) \notin DOMAIN f
        THEN [self |-> loc.self, ret |-> Return(flux), read |-> loc.read,
              stored |-> loc.stored, locate |-> called,
              path |-> <<"BASELINE_COMPUTED", "BRACKET_LOCATED",
                         "UNCORRECTED_PASSTHROUGH">>]
        ELSE
        LET cors    == f[MagcorName(band)]
            ix_l    == loc.ret.val[1]
            ix_u    == loc.ret.val[2]
            frac    == loc.ret.val[3]
            mag_cor == IF ix_l = ix_u
                       THEN Num(cors[ix_l + 1])
                       ELSE Interp(cors[ix_l + 1], cors[ix_u + 1], frac)
        IN  [self |-> loc.self,
             ret  |-> Return([flux |-> flux, ratio |-> flux_ratio(mag_cor)]),
             read |-> loc.read \o <<MagcorName(band)>>,
             stored |-> loc.stored, locate |-> called,
             path |-> <<"BASELINE_COMPUTED", "BRACKET_LOCATED",
                        "CORRECTION_LOOKED_UP", "CORRECTED">>]

----------------------------------------------------------------------------
(* The state machine *)

NoCall ==
    [op |-> "none", mjd |-> None, band |-> "", flux |-> 0,
     ret |-> Return(None), read |-> << >>, locate |-> None, path |-> << >>,
     prior |-> None, pre |-> InitSelf]

Init ==
    /\ belongs_mjd = None
    /\ \E T \in Grids : file = SEDFile(T)
    /\ native \in Windows
    /\ self = InitSelf
    /\ reads = [mjd |-> 0, lambda |-> 0]
    /\ lastCall = NoCall
    /\ cachedFor = None
    /\ firstRet = None

Count(seq, name) == Cardinality({i \in DOMAIN seq : seq[i] = name})

\* the call of _find_mjd_interval in loc used the shared time, which is set
UsesShared(loc) ==
    /\ loc # None
    /\ belongs_mjd # None
    /\ (loc[1].mjd = None \/ loc[1].mjd = belongs_mjd)

\* the state after a call whose outcome is out
Finish(op, mjd_arg, band, flux, out, path) ==
    /\ reads.mjd + Count(out.read, "mjd") <= MaxReads
    /\ reads.lambda + Count(out.read, "lambda") <= MaxReads
    /\ self' = out.self
    /\ reads' = [mjd    |-> reads.mjd + Count(out.read, "mjd"),
                 lambda |-> reads.lambda + Count(out.read, "lambda")]
    /\ cachedFor' = IF out.stored THEN belongs_mjd ELSE cachedFor
    /\ firstRet' = IF UsesShared(out.locate) /\ firstRet = None
                   THEN Some(out.locate[1].ret)
                   ELSE firstRet
    /\ lastCall' = [op |-> op, mjd |-> mjd_arg, band |-> band, flux |-> flux,
                    ret |-> out.ret, read |-> out.read,
                    locate |-> out.locate, path |-> path,
                    prior |-> firstRet, pre |-> self]
    /\ UNCHANGED <<belongs_mjd, file, native>>

\* the collection sets its shared time
SetMjd(t) ==
    /\ belongs_mjd' = t
    /\ firstRet' = IF t = belongs_mjd THEN firstRet ELSE None
    /\ lastCall' = [NoCall EXCEPT !.op = "set_mjd", !.mjd = t, !.pre = self]
    /\ UNCHANGED <<file, native, self, reads, cachedFor>>

FindMjdInterval(mjd_arg) ==
    LET loc == find_mjd_interval(self, belongs_mjd, file, mjd_arg)
        out == [self |-> loc.self, ret |-> loc.ret, read |-> loc.read,
                stored |-> loc.stored,
                locate |-> Some([mjd |-> mjd_arg, ret |-> loc.ret,
                                 read |-> loc.read])]
    IN  Finish("_find_mjd_interval", mjd_arg, "", 0, out, << >>)

GetSed(mjd_arg) ==
    Finish("_get_sed", mjd_arg, "", 0,
           get_sed(self, belongs_mjd, file, native, mjd_arg), << >>)

GetLSSTFlux(band, flux, mjd_arg) ==
    LET out == get_LSST_flux(self, belongs_mjd, file, band, flux, mjd_arg)
    IN  Finish("get_LSST_flux", mjd_arg, band, flux, out, out.path)

Next ==
    \/ \E t \in MjdArgs : SetMjd(t)
    \/ \E m \in MjdArgs : FindMjdInterval(m)
    \/ \E m \in MjdArgs : GetSed(m)
    \/ \E b \in Bands, x \in Fluxes, m \in MjdArgs : GetLSSTFlux(b, x, m)

Spec == Init /\ [][Next]_vars

----------------------------------------------------------------------------
(* The properties *)

\* the call of _find_mjd_interval made by the last step
Loc == lastCall.locate[1]

\* number of samples of the grid T that are <= t: where t is inserted
InsertionPoint(T, t) == Cardinality({i \in 1 .. Len(T) : T[i] <= t})

\* the bracket of t in the grid T, found without the object
FreshBracket(T, t) ==
    LET n == InsertionPoint(T, t)
    IN  IF n = 0
        THEN <<0, 0, None>>
        ELSE IF n = Len(T)
             THEN <<n - 1, n - 1, None>>
             ELSE <<n - 1, n, <<t - T[n], T[n + 1] - T[n]>> >>

\* ln(10)/2.5 = 0.9210340371976184: its 16 digits after "0."
Ln10Over2p5 == <<9, 2, 1, 0, 3, 4, 0, 3, 7, 1, 9, 7, 6, 1, 8, 4>>

\* a decimal fraction as 16 digits
Scaled16(d) == [i \in 1 .. 16 |-> IF i <= Len(d) THEN d[i] ELSE 0]

\* the error the spec calls MissingTimeError is the ValueError of _get_sed
MissingTimeError == "ValueError"

Terminal == {"CORRECTED", "ZERO_SHORTCIRCUIT", "UNCORRECTED_PASSTHROUGH"}

\* C1: when _get_sed is called with a time inside the validity window and
\* the bracket has lower_index = upper_index, the call succeeds and the
\* flux density of the SED is the stored row of flambda at that index.
C1_ClampedSedIsStoredRow ==
    (/\ lastCall.op = "_get_sed"
     /\ lastCall.locate # None
     /\ Loc.ret.kind = "return"
     /\ Loc.ret.val[1] = Loc.ret.val[2])
    => /\ lastCall.ret.kind = "return"
       /\ lastCall.ret.val[1].flambda =
              [c \in 1 .. Len(file.lambda) |->
                  Num(file.flambda[Loc.ret.val[1] + 1][c])]

\* C2: for every grid T and explicit query time t, _find_mjd_interval(t)
\* returns 0 <= l <= u <= len(T)-1; T[l] <= t <= T[u] when t is within the
\* grid; l = u = 0 when t < T[0]; l = u = len(T)-1 when t > T[-1]; and when
\* l # u, u = l+1 and fraction = (t - T[l]) / (T[u] - T[l]) lies in [0,1]
\* with a denominator that is not 0.
C2_LocateBrackets ==
    (lastCall.op = "_find_mjd_interval" /\ lastCall.mjd # None)
    => LET T == file.mjd
           n == Len(T)
           t == lastCall.mjd[1]
       IN  /\ lastCall.ret.kind = "return"
           /\ LET l == lastCall.ret.val[1]
                  u == lastCall.ret.val[2]
                  fr == lastCall.ret.val[3]
              IN  /\ 0 <= l /\ l <= u /\ u <= n - 1
                  /\ (T[1] <= t /\ t <= T[n]) => (T[l + 1] <= t /\ t <= T[u + 1])
                  /\ t < T[1] => (l = 0 /\ u = 0)
                  /\ t > T[n] => (l = n - 1 /\ u = n - 1)
                  /\ l # u => /\ u = l + 1
                              /\ fr = <<t - T[l + 1], T[u + 1] - T[l + 1]>>
                              /\ fr[2] # 0
                              /\ 0 <= fr[1] /\ fr[1] <= fr[2]

\* C3 as stated: whenever _find_mjd_interval is called with the shared time
\* (no time, or a time equal to it), it returns the bracket that a fresh
\* search of the grid for the current shared time returns.
C3_CacheNeverStale ==
    UsesShared(lastCall.locate)
    => Loc.ret = Return(FreshBracket(file.mjd, belongs_mjd[1]))

\* C3 as amended: a call of _find_mjd_interval with the shared time returns
\* the bracket of a fresh search for the current shared time whenever the
\* shared time is the one the collection had when the bracket was stored.
C3_CacheFreshWhileSharedUnchanged ==
    (UsesShared(lastCall.locate) /\ cachedFor = belongs_mjd)
    => Loc.ret = Return(FreshBracket(file.mjd, belongs_mjd[1]))

\* a repeated call with the shared time came back with an interpolating bracket
C3_Witness ==
    /\ UsesShared(lastCall.locate)
    /\ cachedFor = belongs_mjd
    /\ lastCall.prior # None
    /\ Loc.ret.kind = "return"
    /\ Loc.ret.val[1] # Loc.ret.val[2]

\* C4: _find_mjd_interval and _get_sed called without a time while the
\* shared time is unset fail with MissingTimeError, whatever the object holds.
C4_MissingTimeError ==
    (/\ lastCall.op \in {"_find_mjd_interval", "_get_sed"}
     /\ lastCall.mjd = None
     /\ belongs_mjd = None)
    => lastCall.ret = Raise(MissingTimeError)

\* C5: get_LSST_flux with a baseline flux of 0 returns 0, and with a
\* baseline flux < 0 raises the negative-flux error; either way it calls
\* neither _find_mjd_interval nor the file and leaves the object unchanged.
C5_ZeroOrNegativeBaseline ==
    (lastCall.op = "get_LSST_flux" /\ lastCall.flux <= 0)
    => /\ self = lastCall.pre
       /\ lastCall.locate = None
       /\ lastCall.read = << >>
       /\ lastCall.ret = IF lastCall.flux = 0
                         THEN Return(0)
                         ELSE Raise("SkyCatalogsRuntimeError")

\* a zero baseline was answered while the object held grid and bracket
C5_Witness ==
    /\ lastCall.op = "get_LSST_flux"
    /\ lastCall.flux = 0
    /\ lastCall.ret = Return(0)
    /\ self.mjds # None
    /\ self.mjd_ix_l # None

\* C6: the k of ratio = exp(-k * mag) equals ln(10)/2.5 in all 16 digits.
C6_RatioConstant ==
    (/\ lastCall.op = "get_LSST_flux"
     /\ lastCall.path # << >>
     /\ lastCall.path[Len(lastCall.path)] = "CORRECTED")
    => Scaled16(lastCall.ret.val.ratio.k) = Ln10Over2p5

\* C7: while the shared time keeps one set value, every call of
\* _find_mjd_interval with the shared time after the first returns what
\* the first returned and does not read the epoch grid from the file.
C7_LocateIdempotent ==
    (UsesShared(lastCall.locate) /\ lastCall.prior # None)
    => /\ Loc.ret = lastCall.prior[1]
       /\ Count(Loc.read, "mjd") = 0

\* a second call with the shared time returned an interpolating bracket
C7_Witness ==
    /\ lastCall.op = "_find_mjd_interval"
    /\ UsesShared(lastCall.locate)
    /\ lastCall.prior # None
    /\ Loc.ret.kind = "return"
    /\ Loc.ret.val[3] # None

\* C8: _find_mjd_interval with an explicit time that differs from the
\* shared time, 0 included, leaves the stored bracket as it was.
C8_ExplicitOtherTimeKeepsCache ==
    (/\ lastCall.op = "_find_mjd_interval"
     /\ lastCall.mjd # None
     /\ lastCall.mjd # belongs_mjd)
    => /\ self.mjd_ix_l = lastCall.pre.mjd_ix_l
       /\ self.mjd_ix_u = lastCall.pre.mjd_ix_u
       /\ self.mjd_fraction = lastCall.pre.mjd_fraction
       /\ self.lambda = lastCall.pre.lambda

\* C9: the epoch grid and the wavelength grid are each read from the file
\* at most once.
C9_GridsReadOnce == reads.mjd <= 1 /\ reads.lambda <= 1

\* C10: every get_LSST_flux with a baseline flux >= 0 and a time to query
\* (given, or else the shared time) ends in one terminal state: ZERO_SHORTCIRCUIT iff the flux is 0, UNCORRECTED_PASSTHROUGH
\* (returning the flux) iff the flux is > 0 and the band has no correction
\* series, CORRECTED (returning flux * ratio) otherwise; and the correction
\* is looked up only after the bracket was located, and interpolated with it.
C10_FluxStateMachine ==
    (/\ lastCall.op = "get_LSST_flux"
     /\ lastCall.flux >= 0
     /\ (lastCall.mjd # None \/ belongs_mjd # None))
    => LET path == lastCall.path
           last == path[Len(path)]
           noSeries == MagcorName(lastCall.band) \notin DOMAIN file
       IN  /\ last \in Terminal
           /\ last = "ZERO_SHORTCIRCUIT" <=> lastCall.flux = 0
           /\ last = "UNCORRECTED_PASSTHROUGH" <=> (lastCall.flux > 0 /\ noSeries)
           /\ last # "CORRECTED" => lastCall.ret = Return(lastCall.flux)
           /\ last = "CORRECTED" =>
                  /\ path = <<"BASELINE_COMPUTED", "BRACKET_LOCATED",
                              "CORRECTION_LOOKED_UP", "CORRECTED">>
                  /\ lastCall.ret.kind = "return"
                  /\ lastCall.ret.val.flux = lastCall.flux
                  /\ LET cors == file[MagcorName(lastCall.band)]
                         l == Loc.ret.val[1]
                         u == Loc.ret.val[2]
                     IN  lastCall.ret.val.ratio.mag =
                            IF l = u
                            THEN Num(cors[l + 1])
                            ELSE Interp(cors[l + 1], cors[u + 1], Loc.ret.val[3])

====
